---- MODULE Spec2Model ----
(***************************************************************************)
(* Model of pysrpm: conversion of Python package versions, version         *)
(* specifiers and environment markers to RPM dependency clauses.           *)
(*                                                                         *)
(* Strings are sequences of one-character strings, so that formatting,     *)
(* splitting and RPM's character-wise version comparison are computed.     *)
(***************************************************************************)
EXTENDS Integers, Sequences, FiniteSets, TLC

(***************************************************************************)
(* Bounds of the explored inputs.                                          *)
(***************************************************************************)
MaxEpoch == 1
MaxRelLen == 2
MaxSeg == 0
MaxPre == 0
MaxPost == 0
MaxDev == 0
MaxSpecRelLen == 3
MaxSpecs == 4
MaxExtras == 1
MaxReqs == 2
MaxRpms == 2

(***************************************************************************)
(* Characters and strings.                                                 *)
(***************************************************************************)
DigitChars == <<"0", "1", "2", "3", "4", "5", "6", "7", "8", "9">>

AlphaChars == <<"a", "b", "c", "d", "e", "f", "g", "h", "i", "j", "k", "l", "m",
                "n", "o", "p", "q", "r", "s", "t", "u", "v", "w", "x", "y", "z">>

IsDigit(c) == \E i \in 1..10 : DigitChars[i] = c

IsAlpha(c) == \E i \in 1..26 : AlphaChars[i] = c

IsAlnum(c) == IsDigit(c) \/ IsAlpha(c)

\* Code point order of the characters that occur in versions: the separators
\* and digits come before the lower-case letters, '^', '_' between upper and
\* lower case, '~' last.
Ord(c) ==
  IF IsDigit(c) THEN 48 + (CHOOSE i \in 1..10 : DigitChars[i] = c) - 1
  ELSE IF IsAlpha(c) THEN 97 + (CHOOSE i \in 1..26 : AlphaChars[i] = c) - 1
  ELSE CASE c = " " -> 32 [] c = "!" -> 33 [] c = "(" -> 40 [] c = ")" -> 41
         [] c = "*" -> 42 [] c = "+" -> 43 [] c = "," -> 44 [] c = "-" -> 45
         [] c = "." -> 46 [] c = ":" -> 58 [] c = "<" -> 60 [] c = "=" -> 61
         [] c = ">" -> 62 [] c = "^" -> 94 [] c = "_" -> 95 [] c = "~" -> 126
         [] OTHER -> 0

Sign(n) == IF n < 0 THEN -1 ELSE IF n > 0 THEN 1 ELSE 0

\* str(n) for a natural number
RECURSIVE Dec(_)
Dec(n) == IF n < 10 THEN <<DigitChars[n + 1]>>
          ELSE Dec(n \div 10) \o <<DigitChars[(n % 10) + 1]>>

\* int(s) for a string of digits
RECURSIVE ParseInt(_)
ParseInt(s) ==
  IF s = <<>> THEN 0
  ELSE 10 * ParseInt(SubSeq(s, 1, Len(s) - 1))
       + (CHOOSE i \in 0..9 : DigitChars[i + 1] = s[Len(s)])

\* strcmp(a, b): -1, 0 or 1
RECURSIVE StrCmp(_, _)
StrCmp(a, b) ==
  IF a = <<>> /\ b = <<>> THEN 0
  ELSE IF a = <<>> THEN -1
  ELSE IF b = <<>> THEN 1
  ELSE IF Ord(a[1]) # Ord(b[1]) THEN Sign(Ord(a[1]) - Ord(b[1]))
  ELSE StrCmp(Tail(a), Tail(b))

\* sep.join(parts)
RECURSIVE Join(_, _)
Join(sep, parts) ==
  IF parts = <<>> THEN <<>>
  ELSE IF Len(parts) = 1 THEN parts[1]
  ELSE parts[1] \o sep \o Join(sep, Tail(parts))

\* position of the first (last) occurrence of character c in s, 0 if none
FindFirst(s, c) ==
  IF \E i \in 1..Len(s) : s[i] = c
  THEN CHOOSE i \in 1..Len(s) : s[i] = c /\ \A j \in 1..(i - 1) : s[j] # c
  ELSE 0

FindLast(s, c) ==
  IF \E i \in 1..Len(s) : s[i] = c
  THEN CHOOSE i \in 1..Len(s) : s[i] = c /\ \A j \in (i + 1)..Len(s) : s[j] # c
  ELSE 0

\* s.replace(c, d) for single characters
Replace(s, c, d) == [i \in 1..Len(s) |-> IF s[i] = c THEN d ELSE s[i]]

HasChar(s, c) == \E i \in 1..Len(s) : s[i] = c

(***************************************************************************)
(* RPM version comparison (rpmvercmp / labelCompare of the rpm library,    *)
(* used by the tests' RPMVersion to order encoded versions).               *)
(***************************************************************************)
IsSeparator(c) == ~IsAlnum(c) /\ c # "~" /\ c # "^"

\* length of the longest prefix of s whose characters all satisfy the class
RECURSIVE DigitRun(_)
DigitRun(s) == IF s # <<>> /\ IsDigit(s[1]) THEN 1 + DigitRun(Tail(s)) ELSE 0

RECURSIVE AlphaRun(_)
AlphaRun(s) == IF s # <<>> /\ IsAlpha(s[1]) THEN 1 + AlphaRun(Tail(s)) ELSE 0

RECURSIVE SkipSeparators(_)
SkipSeparators(s) ==
  IF s # <<>> /\ IsSeparator(s[1]) THEN SkipSeparators(Tail(s)) ELSE s

RECURSIVE StripZeros(_)
StripZeros(s) == IF s # <<>> /\ s[1] = "0" THEN StripZeros(Tail(s)) ELSE s

Drop(s, n) == SubSeq(s, n + 1, Len(s))

Take(s, n) == SubSeq(s, 1, n)

\* comparison of two segments of the same kind
SegmentCmp(isnum, seg1, seg2) ==
  IF isnum
  THEN LET n1 == StripZeros(seg1)
           n2 == StripZeros(seg2)
       IN  IF Len(n1) > Len(n2) THEN 1
           ELSE IF Len(n2) > Len(n1) THEN -1
           ELSE StrCmp(n1, n2)
  ELSE StrCmp(seg1, seg2)

\* the main loop of rpmvercmp on the two remaining strings
RECURSIVE VerCmpLoop(_, _)
VerCmpLoop(a, b) ==
  LET one == SkipSeparators(a)
      two == SkipSeparators(b)
      h1 == IF one = <<>> THEN "" ELSE one[1]
      h2 == IF two = <<>> THEN "" ELSE two[1]
  IN
  IF h1 = "~" \/ h2 = "~" THEN
       IF h1 # "~" THEN 1
       ELSE IF h2 # "~" THEN -1
       ELSE VerCmpLoop(Tail(one), Tail(two))
  ELSE IF h1 = "^" \/ h2 = "^" THEN
       IF one = <<>> THEN -1
       ELSE IF two = <<>> THEN 1
       ELSE IF h1 # "^" THEN 1
       ELSE IF h2 # "^" THEN -1
       ELSE VerCmpLoop(Tail(one), Tail(two))
  ELSE IF one = <<>> \/ two = <<>> THEN
       IF one = <<>> /\ two = <<>> THEN 0
       ELSE IF one # <<>> THEN 1 ELSE -1
  ELSE
       LET isnum == IsDigit(h1)
           l1 == IF isnum THEN DigitRun(one) ELSE AlphaRun(one)
           l2 == IF isnum THEN DigitRun(two) ELSE AlphaRun(two)
       IN  IF l1 = 0 THEN -1
           ELSE IF l2 = 0 THEN (IF isnum THEN 1 ELSE -1)
           ELSE LET rc == SegmentCmp(isnum, Take(one, l1), Take(two, l2))
                IN  IF rc # 0 THEN rc
                    ELSE VerCmpLoop(Drop(one, l1), Drop(two, l2))

rpmvercmp(a, b) == IF a = b THEN 0 ELSE VerCmpLoop(a, b)

\* None is the empty string here: the tests pass `field or None`
compare_values(s1, s2) ==
  IF s1 = <<>> /\ s2 = <<>> THEN 0
  ELSE IF s2 = <<>> THEN 1
  ELSE IF s1 = <<>> THEN -1
  ELSE rpmvercmp(s1, s2)

\* rpm.labelCompare((e1, v1, r1), (e2, v2, r2)); a missing epoch counts as 0
labelCompare(l1, l2) ==
  LET e1 == IF l1.epoch = <<>> THEN <<"0">> ELSE l1.epoch
      e2 == IF l2.epoch = <<>> THEN <<"0">> ELSE l2.epoch
      rce == compare_values(e1, e2)
      rcv == compare_values(l1.version, l2.version)
  IN  IF rce # 0 THEN rce
      ELSE IF rcv # 0 THEN rcv
      ELSE compare_values(l1.release, l2.release)


(***************************************************************************)
(* PEP 440 versions (packaging.version.Version).  A version is a record;   *)
(* None is -1 for post and dev, the empty phase for pre, and the empty     *)
(* sequence for local.  A local part is a string; the parts made of digits *)
(* only are the numeric ones.                                              *)
(***************************************************************************)
None == -1

NoPre == [phase |-> <<>>, n |-> 0]

Phases == {<<"a">>, <<"b">>, <<"r", "c">>}

SegVals == (0..MaxSeg) \cup {10}

RECURSIVE SeqsUpTo(_, _)
SeqsUpTo(S, n) ==
  IF n = 0 THEN {<<>>}
  ELSE LET shorter == SeqsUpTo(S, n - 1)
       IN  shorter \cup {Append(q, x) : q \in shorter, x \in S}

Releases == SeqsUpTo(SegVals, MaxRelLen) \ {<<>>}

Pres == {NoPre} \cup [phase : Phases, n : 0..MaxPre]

Posts == {None} \cup (0..MaxPost)

Devs == {None} \cup (0..MaxDev)

Locals == { <<>>,
            << <<"a", "b", "c">>, <<"5">> >>,
            << <<"a", "b", "c">>, <<"7">> >>,
            << <<"5">> >>,
            << <<"7", "a", "b", "c">> >>,
            << <<"p", "a", "t", "c", "h", "e", "d">> >> }

PublicVersions ==
  [epoch : 0..MaxEpoch, release : Releases, pre : Pres, post : Posts,
   dev : Devs, local : {<<>>}]

\* final releases: no pre, post, dev or local segment
FinalVersions ==
  [epoch : 0..MaxEpoch, release : Releases, pre : {NoPre}, post : {None},
   dev : {None}, local : {<<>>}]

\* public versions without epoch
PlainVersions ==
  [epoch : {0}, release : Releases, pre : Pres, post : Posts, dev : Devs,
   local : {<<>>}]

\* versions of the release 10, with and without a local segment
LocalVersions ==
  [epoch : {0}, release : {<<10>>}, pre : Pres, post : Posts, dev : Devs,
   local : Locals]

IsNumericPart(part) == \A i \in 1..Len(part) : IsDigit(part[i])

\* packaging.version._cmpkey: release without its trailing zeros
RECURSIVE StripTrailingZeros(_)
StripTrailingZeros(rel) ==
  IF rel # <<>> /\ rel[Len(rel)] = 0
  THEN StripTrailingZeros(SubSeq(rel, 1, Len(rel) - 1))
  ELSE rel

\* comparison of two tuples of integers, as Python compares tuples
RECURSIVE TupleCmp(_, _)
TupleCmp(a, b) ==
  IF a = <<>> /\ b = <<>> THEN 0
  ELSE IF a = <<>> THEN -1
  ELSE IF b = <<>> THEN 1
  ELSE IF a[1] # b[1] THEN Sign(a[1] - b[1])
  ELSE TupleCmp(Tail(a), Tail(b))

Infinity == 1000000

\* _pre of the comparison key as (rank of the phase, number): a version with
\* only a dev segment sorts before every pre-release, one without
\* pre-release after them
PreKey(v) ==
  IF v.pre = NoPre /\ v.post = None /\ v.dev # None THEN <<-1, 0>>
  ELSE IF v.pre = NoPre THEN <<3, 0>>
  ELSE <<(CASE v.pre.phase = <<"a">> -> 0
            [] v.pre.phase = <<"b">> -> 1
            [] v.pre.phase = <<"r", "c">> -> 2), v.pre.n>>

DevKey(v) == IF v.dev = None THEN Infinity ELSE v.dev

\* one part of _local: an integer sorts after every string
LocalPartCmp(p, q) ==
  IF IsNumericPart(p) /\ IsNumericPart(q) THEN Sign(ParseInt(p) - ParseInt(q))
  ELSE IF IsNumericPart(p) THEN 1
  ELSE IF IsNumericPart(q) THEN -1
  ELSE StrCmp(p, q)

RECURSIVE LocalTupleCmp(_, _)
LocalTupleCmp(a, b) ==
  IF a = <<>> /\ b = <<>> THEN 0
  ELSE IF a = <<>> THEN -1
  ELSE IF b = <<>> THEN 1
  ELSE IF LocalPartCmp(a[1], b[1]) # 0 THEN LocalPartCmp(a[1], b[1])
  ELSE LocalTupleCmp(Tail(a), Tail(b))

\* comparison of Version(v) and Version(w): -1, 0 or 1
VersionCmp(v, w) ==
  LET rel == TupleCmp(StripTrailingZeros(v.release), StripTrailingZeros(w.release))
      pre == TupleCmp(PreKey(v), PreKey(w))
  IN  IF v.epoch # w.epoch THEN Sign(v.epoch - w.epoch)
      ELSE IF rel # 0 THEN rel
      ELSE IF pre # 0 THEN pre
      ELSE IF v.post # w.post THEN Sign(v.post - w.post)
      ELSE IF DevKey(v) # DevKey(w) THEN Sign(DevKey(v) - DevKey(w))
      ELSE LocalTupleCmp(v.local, w.local)

\* str(Version): the normalised text of a version
VersionStr(v) ==
  (IF v.epoch # 0 THEN Dec(v.epoch) \o <<"!">> ELSE <<>>)
  \o Join(<<".">>, [i \in 1..Len(v.release) |-> Dec(v.release[i])])
  \o (IF v.pre # NoPre THEN v.pre.phase \o Dec(v.pre.n) ELSE <<>>)
  \o (IF v.post # None THEN <<".", "p", "o", "s", "t">> \o Dec(v.post) ELSE <<>>)
  \o (IF v.dev # None THEN <<".", "d", "e", "v">> \o Dec(v.dev) ELSE <<>>)
  \o (IF v.local # <<>> THEN <<"+">> \o Join(<<".">>, v.local) ELSE <<>>)

(***************************************************************************)
(* pysrpm.convert.python_version_to_rpm_version                            *)
(*                                                                         *)
(* The epoch becomes the prefix "N:", the release segments are joined by   *)
(* dots, a pre-release is appended as "~<phase><N>", a post-release as     *)
(* ".post<N>", a dev-release as "~~dev<N>" (a tilde segment whose token,   *)
(* starting with a tilde, sorts before every pre-release phase), and the   *)
(* local segment last, after any post-marker: its parts, whose separators  *)
(* are normalised to dots, are appended after a caret.  The caret is what  *)
(* the lists of tests/test_conversion.py:70-75 show of the encoder: they   *)
(* sort 1.0 < 1.0+5 < 1.0.post456.dev34 by the encodings, and under        *)
(* rpmvercmp only a caret places a suffix above the bare version and below *)
(* every longer version (a numeric component after a separator would rank  *)
(* above ".post456").  Every local segment is encoded.                     *)
(***************************************************************************)
python_version_to_rpm_version(v) ==
  (IF v.epoch # 0 THEN Dec(v.epoch) \o <<":">> ELSE <<>>)
  \o Join(<<".">>, [i \in 1..Len(v.release) |-> Dec(v.release[i])])
  \o (IF v.pre # NoPre THEN <<"~">> \o v.pre.phase \o Dec(v.pre.n) ELSE <<>>)
  \o (IF v.post # None THEN <<".", "p", "o", "s", "t">> \o Dec(v.post) ELSE <<>>)
  \o (IF v.dev # None THEN <<"~", "~", "d", "e", "v">> \o Dec(v.dev) ELSE <<>>)
  \o (IF v.local # <<>> THEN <<"^">> \o Join(<<".">>, v.local) ELSE <<>>)

(***************************************************************************)
(* tests/test_conversion.py: RPMVersion, the sort key of encoded versions  *)
(***************************************************************************)
\* s.rpartition(c)[::2] and s.partition(c)[::2]
RPartition(s, c) ==
  LET i == FindLast(s, c)
  IN  IF i = 0 THEN << <<>>, s >> ELSE <<Take(s, i - 1), Drop(s, i)>>

Partition(s, c) ==
  LET i == FindFirst(s, c)
  IN  IF i = 0 THEN << s, <<>> >> ELSE <<Take(s, i - 1), Drop(s, i)>>

RPMVersion(verstring) ==
  LET er == RPartition(verstring, ":")
      vr == Partition(er[2], "-")
  IN  [epoch |-> er[1], version |-> vr[1], release |-> vr[2]]

RPMVersion_lt(x, y) == labelCompare(x, y) < 0


(***************************************************************************)
(* Version specifiers (packaging.specifiers).  A specifier is an operator  *)
(* and the version text written after it; "==" and "!=" may carry a        *)
(* trailing ".*".  A SpecifierSet keeps its specifiers in a frozenset.     *)
(***************************************************************************)
OpEq == <<"=", "=">>
OpNe == <<"!", "=">>
OpLt == <<"<">>
OpLe == <<"<", "=">>
OpGt == <<">">>
OpGe == <<">", "=">>
OpCompatible == <<"~", "=">>
OpArbitrary == <<"=", "=", "=">>

OrderedOps == {OpLt, OpLe, OpGt, OpGe}

Wildcard == <<".", "*">>

EndsWith(s, suffix) ==
  Len(s) >= Len(suffix) /\ SubSeq(s, Len(s) - Len(suffix) + 1, Len(s)) = suffix

\* Version(text).release: the integers of the dotted prefix of the text, after
\* an epoch "N!" if there is one
RECURSIVE ParseSegments(_)
ParseSegments(s) ==
  LET n == DigitRun(s)
      rest == Drop(s, n)
  IN  IF n = 0 THEN <<>>
      ELSE IF Len(rest) >= 2 /\ rest[1] = "." /\ IsDigit(rest[2])
           THEN <<ParseInt(Take(s, n))>> \o ParseSegments(Tail(rest))
           ELSE <<ParseInt(Take(s, n))>>

ParseRelease(text) ==
  IF HasChar(text, "!") THEN ParseSegments(Drop(text, FindFirst(text, "!")))
  ELSE ParseSegments(text)

(***************************************************************************)
(* pysrpm.convert.specifier_to_rpm_version                                 *)
(***************************************************************************)
InvalidSpecifierOperator == <<"InvalidSpecifierOperator">>

Space == <<" ">>

\* the version a wildcard specifier is compared with: the text before ".*"
WithoutWildcard(text) ==
  IF EndsWith(text, Wildcard) THEN Take(text, Len(text) - 2) ELSE text

\* the upper bound of "~= V": the release of V without its last segment, the
\* last remaining segment incremented
CompatibleUpperBound(text) ==
  LET release == ParseRelease(text)
      n == Len(release) - 1
  IN  Join(<<".">>, [i \in 1..n |->
                       IF i = n THEN Dec(release[i] + 1) ELSE Dec(release[i])])

Clause(package, op, text) == package \o Space \o op \o Space \o text

\* the clauses of one specifier, or InvalidSpecifierOperator
SpecifierClauses(package, spec) ==
  LET v == WithoutWildcard(spec.version)
  IN  IF spec.operator = OpEq THEN <<Clause(package, <<"=">>, v)>>
      ELSE IF spec.operator = OpNe
        THEN <<Clause(package, OpLt, v) \o <<" ", "o", "r", " ">>
               \o Clause(package, OpGt, v)>>
      ELSE IF spec.operator \in OrderedOps
        THEN <<Clause(package, spec.operator, spec.version)>>
      ELSE IF spec.operator = OpCompatible /\ Len(ParseRelease(spec.version)) >= 2
        THEN <<Clause(package, OpGe, spec.version),
               Clause(package, OpLt, CompatibleUpperBound(spec.version))>>
      ELSE InvalidSpecifierOperator

RECURSIVE AllClauses(_, _)
AllClauses(package, specs) ==
  IF specs = <<>> THEN <<>>
  ELSE SpecifierClauses(package, specs[1]) \o AllClauses(package, Tail(specs))

\* specs: the specifiers of the set in the order its iteration yields them
specifier_to_rpm_version(package, specs) ==
  IF \E i \in 1..Len(specs) :
       SpecifierClauses(package, specs[i]) = InvalidSpecifierOperator
  THEN InvalidSpecifierOperator
  ELSE IF specs = <<>> THEN package
  ELSE Join(<<",", " ">>, AllClauses(package, specs))


(***************************************************************************)
(* Environment markers (packaging.markers).  A marker is a tree: a leaf    *)
(* <<"leaf", variable, operator, literal>> or a node <<"and", l, r>>,      *)
(* <<"or", l, r>>.  The result of a simplification is a Boolean or an RPM  *)
(* condition string.                                                       *)
(***************************************************************************)
BoolTrue == <<"True">>

BoolFalse == <<"False">>

UnsupportedMarkerVariable == <<"UnsupportedMarkerVariable">>

IsBool(r) == r \in {BoolTrue, BoolFalse}

IsError(r) == r \in {UnsupportedMarkerVariable, InvalidSpecifierOperator}

IsCondition(r) == r # <<>> /\ ~IsBool(r) /\ ~IsError(r)

Bool(b) == IF b THEN BoolTrue ELSE BoolFalse

OpIn == <<"i", "n">>

OpNotIn == <<"n", "o", "t", " ", "i", "n">>

\* needle in hay, for Python strings
Contains(hay, needle) ==
  \E i \in 0..(Len(hay) - Len(needle)) : SubSeq(hay, i + 1, i + Len(needle)) = needle

\* the templates of the tests: capability names, "{arch}" and "{name}" being
\* the placeholders
PythonAbi == <<"p", "y", "t", "h", "o", "n", "(", "a", "b", "i", ")">>

PythonArch == <<"p", "y", "t", "h", "o", "n", "(", "{arch}", ")">>

PythonPackage == <<"p", "y", "t", "h", "o", "n", "-", "{name}">>

Kernel == <<"k", "e", "r", "n", "e", "l">>

\* template.format(key=value)
RECURSIVE Format(_, _, _)
Format(template, key, value) ==
  IF template = <<>> THEN <<>>
  ELSE (IF template[1] = key THEN value ELSE <<template[1]>>)
       \o Format(Tail(template), key, value)

EqualityOnly == {"platform_machine"}

Ordered == {"platform_release", "python_version"}

CapabilityName(variable) ==
  IF variable = "platform_release" THEN Kernel ELSE PythonAbi

With == <<"w", "i", "t", "h", " ">>

Without == <<"w", "i", "t", "h", "o", "u", "t", " ">>

(***************************************************************************)
(* pysrpm.convert._single_marker_to_rpm_condition: the condition of a leaf *)
(* on a variable known only on the installing machine                      *)
(***************************************************************************)
single_marker_to_rpm_condition(leaf) ==
  LET variable == leaf[2]
      op == leaf[3]
      literal == leaf[4]
  IN  IF variable \in EqualityOnly THEN
        IF op = OpEq THEN With \o Format(PythonArch, "{arch}", literal)
        ELSE IF op = OpNe THEN Without \o Format(PythonArch, "{arch}", literal)
        ELSE InvalidSpecifierOperator
      ELSE IF variable \in Ordered THEN
        IF op \in OrderedOps
          THEN With \o CapabilityName(variable) \o Space \o op \o Space \o literal
        ELSE IF op = OpEq THEN With \o CapabilityName(variable)
        ELSE IF op = OpNe THEN Without \o CapabilityName(variable)
        ELSE InvalidSpecifierOperator
      ELSE UnsupportedMarkerVariable

\* a leaf on a variable of the environment: a Boolean
known_marker(leaf, environments) ==
  LET variable == leaf[2]
      op == leaf[3]
      literal == leaf[4]
      value == environments[variable]
  IN  IF variable = "extra" THEN
        IF op = OpEq THEN Bool(\E i \in 1..Len(value) : value[i] = literal)
        ELSE IF op = OpNe THEN Bool(~\E i \in 1..Len(value) : value[i] = literal)
        ELSE InvalidSpecifierOperator
      ELSE IF op = OpEq THEN Bool(value = literal)
      ELSE IF op = OpNe THEN Bool(value # literal)
      ELSE IF op = OpIn THEN Bool(Contains(literal, value))
      ELSE IF op = OpNotIn THEN Bool(~Contains(literal, value))
      ELSE InvalidSpecifierOperator

\* the conjunction of two results
MarkerAnd(l, r) ==
  IF l = BoolFalse \/ r = BoolFalse THEN BoolFalse
  ELSE IF IsError(l) THEN l
  ELSE IF IsError(r) THEN r
  ELSE IF l = BoolTrue THEN r
  ELSE IF r = BoolTrue THEN l
  ELSE l \o Space \o r

\* the disjunction of two results
MarkerOr(l, r) ==
  IF l = BoolTrue \/ r = BoolTrue THEN BoolTrue
  ELSE IF IsError(l) THEN l
  ELSE IF IsError(r) THEN r
  ELSE IF l = BoolFalse THEN r
  ELSE IF r = BoolFalse THEN l
  ELSE l \o <<" ", "o", "r", " ">> \o r

(***************************************************************************)
(* pysrpm.convert.simplify_marker_to_rpm_condition                         *)
(***************************************************************************)
NoMarker == <<"none">>

RECURSIVE simplify_marker_to_rpm_condition(_, _)
simplify_marker_to_rpm_condition(marker, environments) ==
  IF marker = NoMarker THEN BoolTrue
  ELSE IF marker[1] = "leaf" THEN
    IF marker[2] \in DOMAIN environments THEN known_marker(marker, environments)
    ELSE single_marker_to_rpm_condition(marker)
  ELSE IF marker[1] = "and" THEN
    MarkerAnd(simplify_marker_to_rpm_condition(marker[2], environments),
              simplify_marker_to_rpm_condition(marker[3], environments))
  ELSE
    MarkerOr(simplify_marker_to_rpm_condition(marker[2], environments),
             simplify_marker_to_rpm_condition(marker[3], environments))

\* The marker of a text without parentheses, "A and B or C": the text is the
\* list of its leaves and of the connectives <<"and">>, <<"or">> between them;
\* "and" binds tighter than "or", and both group from the left.
RECURSIVE Marker(_)
Marker(text) ==
  LET ors == {i \in 1..Len(text) : text[i] = <<"or">>}
      ands == {i \in 1..Len(text) : text[i] = <<"and">>}
      Last(S) == CHOOSE i \in S : \A j \in S : j <= i
      Node(c, i) == <<c, Marker(SubSeq(text, 1, i - 1)),
                      Marker(SubSeq(text, i + 1, Len(text)))>>
  IN  IF ors # {} THEN Node("or", Last(ors))
      ELSE IF ands # {} THEN Node("and", Last(ands))
      ELSE text[1]


(***************************************************************************)
(* rpm.py, RPM.run: the version written to the spec file is the version    *)
(* text of the package metadata with its dashes replaced.                  *)
(***************************************************************************)
\* the spellings PEP 440 accepts for the separator before post and dev and
\* inside the local segment
Separators == {".", "-", "_"}

\* a version text as the metadata of a package may spell it
RawVersionStr(v, sep) ==
  (IF v.epoch # 0 THEN Dec(v.epoch) \o <<"!">> ELSE <<>>)
  \o Join(<<".">>, [i \in 1..Len(v.release) |-> Dec(v.release[i])])
  \o (IF v.pre # NoPre THEN v.pre.phase \o Dec(v.pre.n) ELSE <<>>)
  \o (IF v.post # None THEN <<sep, "p", "o", "s", "t">> \o Dec(v.post) ELSE <<>>)
  \o (IF v.dev # None THEN <<sep, "d", "e", "v">> \o Dec(v.dev) ELSE <<>>)
  \o (IF v.local # <<>> THEN <<"+">> \o Join(<<sep>>, v.local) ELSE <<>>)

\* the version text taken as it is
rpmversion_of_unreplaced(version) == version

rpmversion_of(version) == Replace(version, "-", "_")

\* tests/test_conversion.py, test_version_sorting: the versions with a local
\* segment and their neighbours, in PEP 440 order
Ver(release, pre, post, dev, local) ==
  [epoch |-> 0, release |-> release, pre |-> pre, post |-> post, dev |-> dev,
   local |-> local]

LocalCorpus ==
  { << Ver(<<1, 0>>, NoPre, None, None, <<>>),
       Ver(<<1, 0>>, NoPre, None, None, << <<"a", "b", "c">>, <<"5">> >>),
       Ver(<<1, 0>>, NoPre, None, None, << <<"a", "b", "c">>, <<"7">> >>),
       Ver(<<1, 0>>, NoPre, None, None, << <<"5">> >>),
       Ver(<<1, 0>>, NoPre, 456, 34, <<>>),
       Ver(<<1, 0>>, NoPre, 456, None, <<>>) >>,
    << Ver(<<1, 0>>, [phase |-> <<"r", "c">>, n |-> 2], None, 1,
           << <<"p", "a", "t", "c", "h", "e", "d">> >>),
       Ver(<<1, 0>>, [phase |-> <<"r", "c">>, n |-> 2], None, None, <<>>),
       Ver(<<1, 0>>, [phase |-> <<"r", "c">>, n |-> 2], None, None,
           << <<"p", "a", "t", "c", "h", "e", "d">> >>),
       Ver(<<1, 0>>, NoPre, None, None, <<>>) >> }


(***************************************************************************)
(* State.                                                                  *)
(***************************************************************************)
VARIABLES
  ver1, ver2,       \* the versions handed to python_version_to_rpm_version
  rpm1, rpm2,       \* their RPM version strings, <<>> before the conversion
  pkgversion,       \* pkg_info['version'], the version text of the metadata
  rpmversion,       \* pkg_info['rpmversion'], <<>> before RPM.run sets it
  name,             \* the name of the requirement
  package,          \* the capability name of the requirement, <<>> before
  specifiers,       \* the specifiers of the requirement, as declared
  versioned,        \* the result of specifier_to_rpm_version, <<>> before
  marker_text,      \* the text of the marker, <<>> if it has at most two leaves
  marker,           \* the marker handed to simplify_marker_to_rpm_condition
  extras,           \* the active extras of the call
  environments,     \* the marker environment of the simplification
  condition,        \* the result of the simplification, <<>> before
  reqs,             \* the requirements handed to convert_python_req
  converted,        \* the outcome of the call: the error raised, the list returned
  hash_orders,      \* the iteration order of each requirement's specifiers
  converted_again,  \* the outcome of a second call with the same arguments
  config,           \* the options of the instance, section [pysrpm]
  pc,               \* where RPM.run is: "idle", "run", "query", "rpmbuild", "collect", "done"
  outcome,          \* how run ended: the exception raised, the value returned
  dirs,             \* the directories that exist, among dest_dir and rpm_base
  spec_files,       \* the directories that hold the spec file
  rpms,             \* the rpm files in dest_dir, rpm_base/SRPMS and rpm_base/RPMS
  subprocesses,     \* the commands run so far
  binary_rpms,      \* the binary rpms the spec file builds, as `rpm -q` lists them
  built,            \* the rpm files rpmbuild has written
  printed,          \* whether the spec has been printed
  config_sections,  \* the sections of the configuration and their `inherits`
  inherit_templates, \* the chain of template sections RPM.__init__ builds
  init_pc,          \* where RPM.__init__ is: "idle", "inherits", "done"
  init_error        \* the exception RPM.__init__ raised, "" if none

versionVars == <<ver1, ver2, rpm1, rpm2, pkgversion, rpmversion>>

specifierVars == <<name, package, specifiers, versioned>>

markerVars == <<marker_text, marker, extras, environments, condition>>

convertVars == <<reqs, converted, hash_orders, converted_again>>

templateVars == <<config_sections, inherit_templates, init_pc, init_error>>

runVars == <<config, pc, outcome, dirs, spec_files, rpms, subprocesses,
             binary_rpms, built, printed, templateVars>>

otherVars == <<convertVars, runVars>>

vars == <<versionVars, specifierVars, markerVars, otherVars>>

NoVersion == [epoch |-> 0, release |-> <<>>, pre |-> NoPre, post |-> None,
              dev |-> None, local |-> <<>>]

VersionIdle ==
  /\ ver1 = NoVersion /\ ver2 = NoVersion
  /\ rpm1 = <<>> /\ rpm2 = <<>>
  /\ pkgversion = <<>> /\ rpmversion = <<>>

SpecifierIdle ==
  name = <<>> /\ package = <<>> /\ specifiers = <<>> /\ versioned = <<>>

\* an environment that also binds the machine, the kernel release and the
\* version of the interpreter that runs the conversion
ENVIRONMENT_of_build_host ==
  [v \in {"os_name", "sys_platform", "platform_system", "implementation_name",
          "platform_python_implementation", "extra",
          "platform_machine", "platform_release", "python_version"} |->
     CASE v = "os_name" -> <<"p", "o", "s", "i", "x">>
       [] v = "sys_platform" -> <<"l", "i", "n", "u", "x">>
       [] v = "platform_system" -> <<"L", "i", "n", "u", "x">>
       [] v = "implementation_name" -> <<"c", "p", "y", "t", "h", "o", "n">>
       [] v = "platform_python_implementation" -> <<"C", "P", "y", "t", "h", "o", "n">>
       [] v = "extra" -> <<>>
       [] v = "platform_machine" -> <<"x", "8", "6", "-", "6", "4">>
       [] v = "platform_release" -> <<"3", ".", "4">>
       [] v = "python_version" -> <<"3", ".", "4">>]

\* tests/test_conversion.py: ENVIRONMENT
ENVIRONMENT ==
  [v \in {"os_name", "sys_platform", "platform_system", "implementation_name",
          "platform_python_implementation", "extra"} |->
     CASE v = "os_name" -> <<"p", "o", "s", "i", "x">>
       [] v = "sys_platform" -> <<"l", "i", "n", "u", "x">>
       [] v = "platform_system" -> <<"L", "i", "n", "u", "x">>
       [] v = "implementation_name" -> <<"c", "p", "y", "t", "h", "o", "n">>
       [] v = "platform_python_implementation" -> <<"C", "P", "y", "t", "h", "o", "n">>
       [] v = "extra" -> <<>>]

\* the environment without the active extras
Environment_without_extras(active) == ENVIRONMENT

\* tests/test_conversion.py, complex_marker: {**ENVIRONMENT, 'extra': extras}
Environment(active) == [ENVIRONMENT EXCEPT !["extra"] = active]

MarkerIdle ==
  /\ marker_text = <<>> /\ marker = NoMarker /\ extras = <<>>
  /\ environments = ENVIRONMENT /\ condition = <<>>

\* no call of convert_python_req
NotCalled == [raised |-> <<"not called">>, rpm_reqs |-> <<>>]

ConvertIdle ==
  /\ reqs = <<>> /\ converted = NotCalled
  /\ hash_orders = <<>> /\ converted_again = NotCalled

NoOutcome == [raised |-> "", returned |-> ""]

NoRpms == [dest_dir |-> {}, SRPMS |-> {}, RPMS |-> {}]

TemplateIdle ==
  /\ config_sections = <<>> /\ inherit_templates = <<>>
  /\ init_pc = "idle" /\ init_error = ""

RunIdle ==
  /\ TemplateIdle
  /\ config = [dry_run |-> FALSE, spec_only |-> FALSE, source_only |-> FALSE,
               binary_only |-> FALSE, keep_temp |-> FALSE]
  /\ pc = "idle" /\ outcome = NoOutcome
  /\ dirs = {} /\ spec_files = {} /\ rpms = NoRpms
  /\ subprocesses = <<>> /\ binary_rpms = <<>> /\ built = {}
  /\ printed = FALSE

OtherIdle == ConvertIdle /\ RunIdle

(***************************************************************************)
(* Ordering of encoded versions: the keys of two versions are computed as  *)
(* sorted(l, key=RPMVersion) computes them.  The pairs are the pairs of   *)
(* final releases (epochs and releases differ), the pairs of a final       *)
(* release and any public version without epoch (releases and suffixes     *)
(* differ), the pairs of versions of one release with or without local     *)
(* segment (suffixes and local segments differ), and the pairs of the      *)
(* tests' lists.                                                           *)
(***************************************************************************)
InitOrder ==
  /\ \/ ver1 \in FinalVersions /\ ver2 \in FinalVersions
     \/ ver1 \in FinalVersions /\ ver1.epoch = 0 /\ ver2 \in PlainVersions
     \/ ver1 \in PlainVersions /\ ver2 \in FinalVersions /\ ver2.epoch = 0
     \/ ver1 \in LocalVersions /\ ver2 \in LocalVersions
     \/ \E l \in LocalCorpus : \E i, j \in 1..Len(l) : ver1 = l[i] /\ ver2 = l[j]
  /\ rpm1 = <<>> /\ rpm2 = <<>>
  /\ pkgversion = <<>> /\ rpmversion = <<>>
  /\ SpecifierIdle /\ MarkerIdle /\ OtherIdle

EncodeVersions ==
  /\ rpm1 = <<>> /\ rpm2 = <<>>
  /\ ver1 # NoVersion /\ ver2 # NoVersion
  /\ rpm1' = python_version_to_rpm_version(ver1)
  /\ rpm2' = python_version_to_rpm_version(ver2)
  /\ UNCHANGED <<ver1, ver2, pkgversion, rpmversion, specifierVars, markerVars, otherVars>>

NextOrder == EncodeVersions

SpecOrder == InitOrder /\ [][NextOrder]_vars

(***************************************************************************)
(* Fields of one version: its encoding, and the version RPM.run writes.    *)
(***************************************************************************)
InitField ==
  /\ ver1 \in PublicVersions \cup LocalVersions
  /\ ver2 = NoVersion
  /\ \E sep \in Separators : pkgversion = RawVersionStr(ver1, sep)
  /\ rpm1 = <<>> /\ rpm2 = <<>> /\ rpmversion = <<>>
  /\ SpecifierIdle /\ MarkerIdle /\ OtherIdle

EncodeVersion ==
  /\ rpm1 = <<>>
  /\ ver1 # NoVersion /\ ver2 = NoVersion
  /\ rpm1' = python_version_to_rpm_version(ver1)
  /\ UNCHANGED <<ver1, ver2, rpm2, pkgversion, rpmversion, specifierVars, markerVars, otherVars>>

SetRpmVersion ==
  /\ rpmversion = <<>>
  /\ pkgversion # <<>>
  /\ rpmversion' = rpmversion_of(pkgversion)
  /\ UNCHANGED <<ver1, ver2, rpm1, rpm2, pkgversion, specifierVars, markerVars, otherVars>>

NextField == EncodeVersion \/ SetRpmVersion

SpecField == InitField /\ [][NextField]_vars

(***************************************************************************)
(* Translation of a specifier set.  The set is built from the declared     *)
(* specifiers as packaging.specifiers.SpecifierSet builds it, a frozenset  *)
(* of Specifier objects: its iteration yields each specifier once, in the  *)
(* order of their hashes, which are hashes of strings.                     *)
(***************************************************************************)
Specifier(op, text) == [operator |-> op, version |-> text]

SpecReleases == SeqsUpTo({0, 5, 9}, MaxSpecRelLen) \ {<<>>}

SpecVersions ==
  [epoch : {0}, release : SpecReleases,
   pre : {NoPre, [phase |-> <<"b">>, n |-> 7]}, post : {None, 1},
   dev : {None}, local : {<<>>}]

\* the specifiers a requirement can declare alone: "~=" needs two release
\* segments to be a specifier, ".*" goes with "==" and "!=" only
SingleSpecifiers ==
  {Specifier(op, VersionStr(v)) :
     op \in OrderedOps \cup {OpEq, OpNe, OpArbitrary}, v \in SpecVersions}
  \cup {Specifier(OpCompatible, VersionStr(v)) :
          v \in {w \in SpecVersions : Len(w.release) >= 2}}
  \cup {Specifier(op, VersionStr(Ver(r, NoPre, None, None, <<>>)) \o Wildcard) :
          op \in {OpEq, OpNe}, r \in SpecReleases}

\* tests/test_conversion.py, test_full_requirement_conversion
ListedSpecifiers ==
  { Specifier(OpNe, <<"2", ".", "0", ".", "4">>),
    Specifier(OpNe, <<"2", ".", "1", ".", "2">>),
    Specifier(OpNe, <<"2", ".", "1", ".", "6">>),
    Specifier(OpGe, <<"2", ".", "0", ".", "1">>),
    Specifier(OpCompatible, <<"5", ".", "0">>) }

Declarations ==
  {<<>>} \cup {<<sp>> : sp \in SingleSpecifiers}
  \cup {d \in SeqsUpTo(ListedSpecifiers, MaxSpecs) : Len(d) >= 2}

Names == {<<"p", "a", "c", "k", "a", "g", "e">>, <<"p", "b", "r">>}

\* rpm.py, convert_python_req: templates['python_package'].format(name=req.name)
\* the name of the requirement without the template around it
python_package_bare(reqname) == reqname

python_package(reqname) == Format(PythonPackage, "{name}", reqname)

Range(q) == {q[i] : i \in 1..Len(q)}

\* the orders in which iterating a set can yield its elements
RECURSIVE IterationOrders(_)
IterationOrders(S) ==
  IF S = {} THEN {<<>>}
  ELSE UNION {{<<x>> \o q : q \in IterationOrders(S \ {x})} : x \in S}

InitSpecifier ==
  /\ name \in Names
  /\ specifiers \in Declarations
  /\ package = <<>> /\ versioned = <<>>
  /\ VersionIdle /\ MarkerIdle /\ OtherIdle

\* rpm.py, convert_python_req: the capability name and its version clauses
Translate ==
  /\ versioned = <<>>
  /\ name # <<>>
  /\ package' = python_package(name)
  /\ \E order \in IterationOrders(Range(specifiers)) :
       versioned' = specifier_to_rpm_version(package', order)
  /\ UNCHANGED <<name, specifiers, versionVars, markerVars, otherVars>>

NextSpecifier == Translate

SpecSpecifier == InitSpecifier /\ [][NextSpecifier]_vars

(***************************************************************************)
(* Simplification of a marker.                                             *)
(***************************************************************************)
Literals ==
  { <<"p", "o", "s", "i", "x">>, <<"n", "t">>, <<"m", "i", "c", "r", "o">>,
    <<"x", "8", "6", "-", "6", "4">>, <<"3", ".", "4">>,
    <<"L", "i", "n", "u", "x">> }

KnownLeaves ==
  {<<"leaf", v, op, l>> :
     v \in {"os_name", "sys_platform", "platform_system", "implementation_name",
            "platform_python_implementation"},
     op \in {OpEq, OpNe, OpIn, OpNotIn}, l \in Literals}
  \cup {<<"leaf", "extra", op, l>> : op \in {OpEq, OpNe}, l \in Literals}

DynamicLeaves ==
  {<<"leaf", v, op, l>> : v \in EqualityOnly, op \in {OpEq, OpNe}, l \in Literals}
  \cup {<<"leaf", v, op, l>> :
          v \in Ordered, op \in OrderedOps \cup {OpEq, OpNe}, l \in Literals}

UnknownLeaves == {<<"leaf", "platform_version", OpEq, l>> : l \in Literals}

Leaves == KnownLeaves \cup DynamicLeaves \cup UnknownLeaves

\* the leaves of the texts with three leaves: statically False, statically
\* True, depending on the extras, known on the installing machine only, on a
\* variable nothing binds, and with an operator that has no rendering
SomeLeaves ==
  { <<"leaf", "os_name", OpEq, <<"n", "t">> >>,
    <<"leaf", "os_name", OpEq, <<"p", "o", "s", "i", "x">> >>,
    <<"leaf", "extra", OpEq, <<"m", "i", "c", "r", "o">> >>,
    <<"leaf", "platform_machine", OpEq, <<"x", "8", "6", "-", "6", "4">> >>,
    <<"leaf", "platform_release", OpGt, <<"3", ".", "4">> >>,
    <<"leaf", "platform_version", OpEq, <<"3", ".", "4">> >>,
    <<"leaf", "platform_machine", OpGt, <<"3", ".", "4">> >> }

\* the texts "A c1 B c2 C"
MarkerTexts ==
  {<<a, <<c1>>, b, <<c2>>, c>> :
     a \in SomeLeaves, b \in SomeLeaves, c \in SomeLeaves,
     c1 \in {"and", "or"}, c2 \in {"and", "or"}}

Markers ==
  Leaves \cup {<<c, l, r>> : c \in {"and", "or"}, l \in Leaves, r \in Leaves}

ExtrasLists == SeqsUpTo({<<"m", "i", "c", "r", "o">>}, MaxExtras)

InitMarker ==
  /\ \/ marker_text = <<>> /\ marker \in Markers
     \/ marker_text \in MarkerTexts /\ marker = Marker(marker_text)
  /\ extras \in ExtrasLists
  /\ environments = ENVIRONMENT
  /\ condition = <<>>
  /\ VersionIdle /\ SpecifierIdle /\ OtherIdle

\* the simplification in the stored environment, whatever the active extras
Simplify_in_stored_environment ==
  /\ condition = <<>>
  /\ marker # NoMarker
  /\ environments' = environments
  /\ condition' = simplify_marker_to_rpm_condition(marker, environments')
  /\ UNCHANGED <<marker_text, marker, extras, versionVars, specifierVars,
               otherVars>>

\* tests/test_conversion.py, complex_marker: the marker is simplified in the
\* environment completed with the active extras
Simplify ==
  /\ condition = <<>>
  /\ marker # NoMarker
  /\ environments' = Environment(extras)
  /\ condition' = simplify_marker_to_rpm_condition(marker, environments')
  /\ UNCHANGED <<marker_text, marker, extras, versionVars, specifierVars,
               otherVars>>

NextMarker == Simplify

SpecMarker == InitMarker /\ [][NextMarker]_vars

(***************************************************************************)
(* rpm.py, RPM.convert_python_req.  A requirement is what                  *)
(* packaging.requirements.Requirement parses from its text: a name, the    *)
(* specifiers as declared, and a marker (NoMarker if there is none).  An   *)
(* exception leaves the call without return value.                         *)
(***************************************************************************)
Raise(e) == [raised |-> e, rpm_reqs |-> <<>>]

Return(l) == [raised |-> <<>>, rpm_reqs |-> l]

\* no requirement is left out
Dropped_never(cond) == FALSE

\* rpm.py:197, `condition is False`
Dropped(cond) == cond = BoolFalse

\* the element without parentheses
rpm_req_bare(versioned_package, cond) ==
  IF cond = BoolTrue THEN versioned_package
  ELSE versioned_package \o <<" ">> \o cond

\* rpm.py:203-206, the element appended for a requirement
rpm_req(versioned_package, cond) ==
  IF cond = BoolTrue THEN versioned_package
  ELSE <<"(">> \o versioned_package \o <<" ">> \o cond \o <<")">>

\* rpm.py:196-206, one turn of the loop; order is the order in which the
\* iteration of req.specifier yields the specifiers
convert_one(req, env, order) ==
  LET cond == simplify_marker_to_rpm_condition(req.marker, env)
      pkg == python_package(req.name)
      versioned_package == specifier_to_rpm_version(pkg, order)
  IN  IF IsError(cond) THEN Raise(cond)
      ELSE IF Dropped(cond) THEN Return(<<>>)
      ELSE IF versioned_package = InvalidSpecifierOperator
        THEN Raise(versioned_package)
      ELSE Return(<<rpm_req(versioned_package, cond)>>)

RECURSIVE convert_python_req_tolerant(_, _, _, _)
RECURSIVE convert_python_req(_, _, _, _)
\* a loop that leaves out the requirements that fail
convert_python_req_tolerant(rs, call_extras, env, orders) ==
  IF rs = <<>> THEN Return(<<>>)
  ELSE LET one == convert_one(rs[1], env, orders[1])
           rest == convert_python_req_tolerant(Tail(rs), call_extras, env,
                                               Tail(orders))
       IN  Return(one.rpm_reqs \o rest.rpm_reqs)

\* rpm.py:184-208: the markers are simplified in self.environments (env);
\* the extras of the call are not used
convert_python_req(rs, call_extras, env, orders) ==
  IF rs = <<>> THEN Return(<<>>)
  ELSE LET one == convert_one(rs[1], env, orders[1])
           rest == convert_python_req(Tail(rs), call_extras, env, Tail(orders))
       IN  IF one.raised # <<>> THEN one
           ELSE IF rest.raised # <<>> THEN rest
           ELSE Return(one.rpm_reqs \o rest.rpm_reqs)

\* the iteration orders of the specifier sets of a list of requirements
RECURSIVE HashOrders(_)
HashOrders(rs) ==
  IF rs = <<>> THEN {<<>>}
  ELSE {<<o>> \o rest : o \in IterationOrders(Range(rs[1].specifier)),
                        rest \in HashOrders(Tail(rs))}

Requirement(reqname, declared, m) ==
  [name |-> reqname, specifier |-> declared, marker |-> m]

Leaf(variable, op, literal) == <<"leaf", variable, op, literal>>

\* tests/test_conversion.py, test_full_requirement_conversion, with the
\* extra "micro", and requirements that cannot be converted
Requirements ==
  LET pkgname == <<"p", "a", "c", "k", "a", "g", "e">>
      pbr == <<"p", "b", "r">>
      nt == <<"n", "t">>
      micro == <<"m", "i", "c", "r", "o">>
      v13 == <<"1", ".", "3">>
      v20 == <<"2", ".", "0">>
      v34 == <<"3", ".", "4">>
      v50 == <<"5", ".", "0">>
  IN  { Requirement(pkgname, <<>>, NoMarker),
        Requirement(pkgname, <<>>, Leaf("os_name", OpEq, nt)),
        Requirement(pkgname, <<>>,
          <<"and", Leaf("os_name", OpNe, nt),
                   Leaf("implementation_name", OpEq,
                        <<"c", "p", "y", "t", "h", "o", "n">>)>>),
        Requirement(pkgname, <<>>,
          <<"and", Leaf("platform_machine", OpNe, <<"x", "8", "6">>),
                   Leaf("platform_release", OpGt, <<"5", ".", "1", "4">>)>>),
        Requirement(pkgname, <<Specifier(OpCompatible, v50)>>,
                    Leaf("extra", OpEq, micro)),
        Requirement(pkgname, <<Specifier(OpEq, <<"5", ".", "*">>)>>,
                    Leaf("python_version", OpLt, v34)),
        Requirement(pkgname, <<Specifier(OpNe, v20), Specifier(OpGe, v13)>>,
                    NoMarker),
        Requirement(pbr, <<Specifier(OpGe, v13), Specifier(OpNe, v20)>>,
                    Leaf("platform_machine", OpEq, <<"x", "8", "6">>)),
        Requirement(pbr, <<>>, Leaf("extra", OpEq, micro)),
        Requirement(pbr, <<Specifier(OpGe, v13)>>,
                    Leaf("platform_version", OpEq, v34)),
        Requirement(pbr, <<>>,
          <<"and", Leaf("os_name", OpEq, nt),
                   Leaf("platform_version", OpEq, v34)>>),
        Requirement(pbr, <<>>,
          <<"and", Leaf("os_name", OpEq, <<"p", "o", "s", "i", "x">>),
                   Leaf("platform_version", OpEq, v34)>>),
        Requirement(pbr, <<>>,
          <<"or", Leaf("os_name", OpEq, <<"p", "o", "s", "i", "x">>),
                  Leaf("platform_version", OpEq, v34)>>),
        Requirement(pbr, <<>>,
          <<"or", Leaf("platform_version", OpEq, v34),
                  Leaf("platform_machine", OpEq, <<"x", "8", "6">>)>>),
        Requirement(pbr, <<Specifier(OpArbitrary, v13)>>, NoMarker),
        Requirement(pbr, <<Specifier(OpArbitrary, v13)>>,
                    Leaf("os_name", OpEq, nt)) }

\* tests/test_conversion.py, multiple_requirements: an instance with its
\* environment, and a call with requirements and extras
InitConvert ==
  /\ reqs \in SeqsUpTo(Requirements, MaxReqs)
  /\ extras \in ExtrasLists
  /\ environments \in {Environment(active) : active \in ExtrasLists}
  /\ converted = NotCalled /\ converted_again = NotCalled
  /\ hash_orders = <<>>
  /\ marker_text = <<>> /\ marker = NoMarker /\ condition = <<>>
  /\ VersionIdle /\ SpecifierIdle /\ RunIdle

\* a call of convert_python_req(reqs, extras)
Convert ==
  /\ converted = NotCalled
  /\ \E orders \in HashOrders(reqs) :
       /\ hash_orders' = orders
       /\ converted' = convert_python_req(reqs, extras, environments, orders)
  /\ UNCHANGED <<reqs, converted_again, versionVars, specifierVars, markerVars,
                 runVars>>

\* the same call once more in the same process: the hashes of the
\* specifiers, and so the iteration orders, are the same
ConvertAgain ==
  /\ converted # NotCalled /\ converted_again = NotCalled
  /\ converted_again' =
       convert_python_req(reqs, extras, environments, hash_orders)
  /\ UNCHANGED <<reqs, converted, hash_orders, versionVars, specifierVars,
                 markerVars, runVars>>

\* the same call in another run of the program: the hashes of strings
\* change from one process to the next
ConvertRepeated ==
  /\ converted # NotCalled /\ converted_again = NotCalled
  /\ \E orders \in HashOrders(reqs) :
       converted_again' = convert_python_req(reqs, extras, environments, orders)
  /\ UNCHANGED <<reqs, converted, hash_orders, versionVars, specifierVars,
                 markerVars, runVars>>

NextConvert == Convert \/ ConvertAgain \/ ConvertRepeated

SpecConvert == InitConvert /\ [][NextConvert]_vars

(***************************************************************************)
(* rpm.py, RPM.run, for a source that exists and without icon.  The rpm    *)
(* files are numbers: 0 is the source rpm, 1, 2, ... are the binary rpms   *)
(* that `rpm -q --specfile` lists.  rpmbuild is a process of its own: it   *)
(* fails, or ends well having written some of the files asked of it.       *)
(***************************************************************************)
SourceRpm == 0

Configs ==
  [dry_run : BOOLEAN, spec_only : BOOLEAN, source_only : BOOLEAN,
   binary_only : BOOLEAN, keep_temp : BOOLEAN]

\* the lists of binary rpms the query can give
QueryOutputs == {[i \in 1..n |-> i] : n \in 0..MaxRpms}

\* the build directories are made whatever spec_only
make_directories_always(existing, spec_only) ==
  existing \cup {"dest_dir", "rpm_base"}

\* rpm.py:282-293, _make_directories
make_directories(existing, spec_only) ==
  existing \cup {"dest_dir"} \cup (IF spec_only THEN {} ELSE {"rpm_base"})

\* rpm.py:369-376, the rpmbuild command without its --define options and
\* the spec file
rpm_cmd(cfg) ==
  <<"rpmbuild",
    IF cfg.source_only THEN "-bs" ELSE IF cfg.binary_only THEN "-bb" ELSE "-ba">>
  \o (IF ~cfg.keep_temp THEN <<"--clean">> ELSE <<>>)

\* the files an rpmbuild command is to write
Products(cmd, rpmlist) ==
  (IF cmd[2] \in {"-bs", "-ba"} THEN {SourceRpm} ELSE {})
  \cup (IF cmd[2] \in {"-bb", "-ba"} THEN Range(rpmlist) ELSE {})

\* rpm.py:399-402, the loop over binary_rpms: the local srpm has no value in
\* binary-only mode, and names the file in rpm_base/SRPMS otherwise
RECURSIVE move_binaries(_, _, _)
move_binaries(fs, todo, cfg) ==
  IF todo = <<>> THEN [rpms |-> fs, raised |-> ""]
  ELSE IF cfg.binary_only THEN [rpms |-> fs, raised |-> "UnboundLocalError"]
  ELSE IF SourceRpm \in fs.SRPMS /\ ~cfg.dry_run
    THEN IF todo[1] \in fs.RPMS
           THEN move_binaries([fs EXCEPT !.RPMS = @ \ {todo[1]},
                                         !.dest_dir = @ \cup {todo[1]}],
                              Tail(todo), cfg)
         ELSE [rpms |-> fs, raised |-> "FileNotFoundError"]
  ELSE move_binaries(fs, Tail(todo), cfg)

\* rpm.py:387-402, the checks and the moves after rpmbuild
collect(fs, rpmlist, cfg) ==
  LET moved == [fs EXCEPT !.SRPMS = @ \ {SourceRpm},
                          !.dest_dir = @ \cup {SourceRpm}]
      after_srpm == IF ~cfg.binary_only /\ ~cfg.dry_run THEN moved ELSE fs
  IN  IF ~cfg.binary_only /\ SourceRpm \notin fs.SRPMS
        THEN [rpms |-> fs, raised |-> "RPMBuildError"]
      ELSE IF cfg.source_only THEN [rpms |-> after_srpm, raised |-> ""]
      ELSE IF \A i \in 1..Len(rpmlist) : rpmlist[i] \notin after_srpm.RPMS
        THEN [rpms |-> after_srpm, raised |-> "RPMBuildError"]
      ELSE move_binaries(after_srpm, rpmlist, cfg)

InitRun ==
  /\ config \in Configs
  /\ pc = "run" /\ outcome = NoOutcome
  /\ dirs = {} /\ spec_files = {} /\ rpms = NoRpms
  /\ subprocesses = <<>> /\ binary_rpms = <<>> /\ built = {}
  /\ printed = FALSE
  /\ TemplateIdle
  /\ VersionIdle /\ SpecifierIdle /\ MarkerIdle /\ ConvertIdle

\* rpm.py:311-351: the spec is made, and printed or written
RunStart ==
  /\ pc = "run"
  /\ IF config.spec_only /\ config.dry_run
       THEN /\ printed' = TRUE
            /\ pc' = "done"
            /\ outcome' = [raised |-> "", returned |-> "None"]
            /\ UNCHANGED <<dirs, spec_files, subprocesses, binary_rpms>>
     ELSE IF config.spec_only
       THEN /\ dirs' = make_directories(dirs, TRUE)
            /\ spec_files' = spec_files \cup {"dest_dir"}
            /\ pc' = "done"
            /\ outcome' = [raised |-> "", returned |-> "None"]
            /\ UNCHANGED <<printed, subprocesses, binary_rpms>>
     ELSE /\ dirs' = make_directories(dirs, FALSE)
          /\ spec_files' = spec_files \cup {"SPECS"}
          /\ pc' = "query"
          /\ UNCHANGED <<printed, outcome, subprocesses, binary_rpms>>
  /\ UNCHANGED <<config, rpms, built, versionVars, specifierVars, markerVars,
                 convertVars, templateVars>>

\* rpm.py:353-367: the rpms the spec file builds are queried; run raises
\* CalledProcessError if rpm fails (check=True), and ValueError if rpm lists
\* nothing (the source rpm is named after the first binary rpm)
RunQuery ==
  /\ pc = "query"
  /\ subprocesses' = Append(subprocesses, <<"rpm", "-q">>)
  /\ \/ /\ pc' = "done"
        /\ outcome' = [raised |-> "CalledProcessError", returned |-> ""]
        /\ UNCHANGED binary_rpms
     \/ \E out \in QueryOutputs :
          IF out = <<>>
            THEN /\ pc' = "done"
                 /\ outcome' = [raised |-> "ValueError", returned |-> ""]
                 /\ UNCHANGED binary_rpms
            ELSE /\ binary_rpms' = out
                 /\ pc' = "rpmbuild"
                 /\ UNCHANGED outcome
  /\ UNCHANGED <<config, dirs, spec_files, rpms, built, printed, versionVars,
                 specifierVars, markerVars, convertVars, templateVars>>

\* rpm.py:369-385: rpmbuild is run; if it fails, run returns an RPMBuildError
RunRpmbuild ==
  /\ pc = "rpmbuild"
  /\ subprocesses' = Append(subprocesses, rpm_cmd(config))
  /\ \/ /\ pc' = "done"
        /\ outcome' = [raised |-> "", returned |-> "RPMBuildError"]
        /\ UNCHANGED <<rpms, built>>
     \/ \E written \in SUBSET Products(rpm_cmd(config), binary_rpms) :
          /\ built' = written
          /\ rpms' = [rpms EXCEPT !.SRPMS = @ \cup (written \cap {SourceRpm}),
                                  !.RPMS = @ \cup (written \ {SourceRpm})]
          /\ pc' = "collect"
          /\ UNCHANGED outcome
  /\ UNCHANGED <<config, dirs, spec_files, binary_rpms, printed, versionVars,
                 specifierVars, markerVars, convertVars, templateVars>>

\* rpm.py:387-402: the files are checked and moved to dest_dir
RunCollect ==
  /\ pc = "collect"
  /\ LET end == collect(rpms, binary_rpms, config)
     IN  /\ rpms' = end.rpms
         /\ outcome' = [raised |-> end.raised,
                        returned |-> IF end.raised = "" THEN "None" ELSE ""]
  /\ pc' = "done"
  /\ UNCHANGED <<config, dirs, spec_files, subprocesses, binary_rpms, built,
                 printed, versionVars, specifierVars, markerVars, convertVars,
                 templateVars>>

NextRun == RunStart \/ RunQuery \/ RunRpmbuild \/ RunCollect

SpecRun == InitRun /\ [][NextRun]_vars

(***************************************************************************)
(* A version range and a candidate: the requirement 'name >= V' or         *)
(* 'name <= V' is translated as convert_python_req translates it, and a    *)
(* candidate version w is encoded; ver1 is w and ver2 is V.                *)
(***************************************************************************)
\* versions that are a final release or a pre-release
RangeBounds ==
  [epoch : {0}, release : Releases, pre : Pres, post : {None}, dev : {None},
   local : {<<>>}]

InitRange ==
  /\ ver1 \in PlainVersions
  /\ ver2 \in RangeBounds
  /\ rpm1 = <<>> /\ rpm2 = <<>>
  /\ pkgversion = <<>> /\ rpmversion = <<>>
  /\ name \in Names
  /\ \E op \in {OpGe, OpLe} : specifiers = <<Specifier(op, VersionStr(ver2))>>
  /\ package = <<>> /\ versioned = <<>>
  /\ MarkerIdle /\ OtherIdle

NextRange == EncodeVersions \/ Translate

SpecRange == InitRange /\ [][NextRange]_vars

(***************************************************************************)
(* RPM.__init__, the chain of template sections (rpm.py:61-68).            *)
(***************************************************************************)
\* the entries of the chain the model keeps: the list of the program has no
\* bound, the model keeps a suffix of at most MaxChain entries, more than a
\* chain without repetition can have; a list that long is cut down to its
\* last entry before the loop goes on
MaxChain == 5

\* the flavour sections a configuration can have besides base_templates
Flavours == {"rpm", "test", "other"}

\* a section's `inherits` option: <<>> if the section has none
InheritsOptions == {<<>>} \cup {<<s>> : s \in Flavours \cup {"base_templates"}}

\* the configurations: the flavour sections present, each with its option
\* (base_templates is always there, from the defaults, and is never asked)
ConfigSections == UNION {[present -> InheritsOptions] : present \in SUBSET Flavours}

\* config.get(section, 'inherits', fallback='base_templates')
get_inherits(sects, section) ==
  IF section \in DOMAIN sects /\ sects[section] # <<>>
    THEN sects[section][1]
    ELSE "base_templates"

\* rpm.py:62: the chain starts with the flavour
InitInherits ==
  /\ config_sections \in ConfigSections
  /\ \E flavour \in Flavours \cup {"base_templates"} :
       inherit_templates = <<flavour>>
  /\ init_pc = "inherits" /\ init_error = ""
  /\ config = [dry_run |-> FALSE, spec_only |-> FALSE, source_only |-> FALSE,
               binary_only |-> FALSE, keep_temp |-> FALSE]
  /\ pc = "idle" /\ outcome = NoOutcome
  /\ dirs = {} /\ spec_files = {} /\ rpms = NoRpms
  /\ subprocesses = <<>> /\ binary_rpms = <<>> /\ built = {}
  /\ printed = FALSE
  /\ VersionIdle /\ SpecifierIdle /\ MarkerIdle /\ ConvertIdle

\* rpm.py:63-64: one turn of the while loop
InheritsStep ==
  /\ init_pc = "inherits"
  /\ inherit_templates[Len(inherit_templates)] # "base_templates"
  /\ LET next == get_inherits(config_sections,
                              inherit_templates[Len(inherit_templates)])
         kept == IF Len(inherit_templates) < MaxChain
                   THEN inherit_templates
                   ELSE <<inherit_templates[Len(inherit_templates)]>>
     IN  inherit_templates' = Append(kept, next)
  /\ UNCHANGED <<config_sections, init_pc, init_error>>
  /\ UNCHANGED <<config, pc, outcome, dirs, spec_files, rpms, subprocesses,
                 binary_rpms, built, printed>>
  /\ UNCHANGED <<versionVars, specifierVars, markerVars, convertVars>>

\* rpm.py:63, 66-68: the loop ends and the sections of the chain are read,
\* which raises NoSectionError for a section the configuration has not
InheritsEnd ==
  /\ init_pc = "inherits"
  /\ inherit_templates[Len(inherit_templates)] = "base_templates"
  /\ init_pc' = "done"
  /\ init_error' =
       IF \E i \in 1..Len(inherit_templates) :
            inherit_templates[i] \notin DOMAIN config_sections \cup {"base_templates"}
         THEN "NoSectionError"
         ELSE ""
  /\ UNCHANGED <<config_sections, inherit_templates>>
  /\ UNCHANGED <<config, pc, outcome, dirs, spec_files, rpms, subprocesses,
                 binary_rpms, built, printed>>
  /\ UNCHANGED <<versionVars, specifierVars, markerVars, convertVars>>

NextInherits == InheritsStep \/ InheritsEnd

\* the constructor is sequential code: a step that can be taken is taken
SpecInherits == InitInherits /\ [][NextInherits]_vars /\ WF_vars(NextInherits)


Encoded(r) == r # <<>>

\* C1: whenever ver1 sorts before ver2 in PEP 440 order, the encoding of ver1
\* is less than the encoding of ver2 under RPM label comparison.
C1_OrderPreserved ==
  (Encoded(rpm1) /\ Encoded(rpm2) /\ VersionCmp(ver1, ver2) < 0)
    => RPMVersion_lt(RPMVersion(rpm1), RPMVersion(rpm2))


SamePublic(v, w) ==
  /\ v.epoch = w.epoch /\ v.release = w.release /\ v.pre = w.pre
  /\ v.post = w.post /\ v.dev = w.dev

\* w is a post-release (or a dev-release of a post-release) of the version v
PostReleaseOf(w, v) ==
  /\ v.epoch = w.epoch /\ v.release = w.release /\ v.pre = w.pre
  /\ v.post = None /\ w.post # None

InCorpusOrder(v, w) ==
  \E l \in LocalCorpus : \E i, j \in 1..Len(l) : i < j /\ v = l[i] /\ w = l[j]

rpm1_lt_rpm2 == RPMVersion_lt(RPMVersion(rpm1), RPMVersion(rpm2))

\* C2: with the same public part, a version with a local segment is encoded
\* above the version without it and below every post-release of it, a local
\* segment starting with a numeric part above one starting with an
\* alphanumeric part, and the two lists of the tests keep their order.
C2_LocalOrder ==
  (Encoded(rpm1) /\ Encoded(rpm2)) =>
    /\ (SamePublic(ver1, ver2) /\ ver1.local = <<>> /\ ver2.local # <<>>)
         => rpm1_lt_rpm2
    /\ (ver1.local # <<>> /\ PostReleaseOf(ver2, ver1)) => rpm1_lt_rpm2
    /\ (SamePublic(ver1, ver2) /\ ver1.local # <<>> /\ ver2.local # <<>>
        /\ ~IsNumericPart(ver1.local[1]) /\ IsNumericPart(ver2.local[1]))
         => rpm1_lt_rpm2
    /\ InCorpusOrder(ver1, ver2) => rpm1_lt_rpm2

NoDash(s) == ~HasChar(s, "-")

\* C3: no field of an encoded version contains a dash, neither the epoch,
\* version and release of python_version_to_rpm_version's result nor the
\* version RPM.run hands to the spec file.
C3_NoDash ==
  /\ Encoded(rpm1) =>
       /\ NoDash(RPMVersion(rpm1).epoch)
       /\ NoDash(RPMVersion(rpm1).version)
       /\ NoDash(RPMVersion(rpm1).release)
  /\ NoDash(rpmversion)

\* a version with post, dev and local segments, spelled with dashes in the
\* metadata, has been encoded
C3_Witness ==
  /\ Encoded(rpm1) /\ rpmversion # <<>>
  /\ ver1.post # None /\ ver1.dev # None /\ ver1.local # <<>>
  /\ HasChar(pkgversion, "-")


(***************************************************************************)
(* Specifier translation: expected texts, written out independently of     *)
(* the translation.                                                        *)
(***************************************************************************)
ExpectedPackage == <<"p", "y", "t", "h", "o", "n", "-">> \o name

Translated == versioned # <<>>

IsSingle == Len(specifiers) = 1

TheVersion == specifiers[1].version

TheOperator == specifiers[1].operator

NotEqualClause(text) ==
  ExpectedPackage \o <<" ", "<", " ">> \o text \o <<" ", "o", "r", " ">>
  \o ExpectedPackage \o <<" ", ">", " ">> \o text

\* C4: a single specifier without wildcard gives exactly one clause, 'name OP V'
\* for <, <=, >, >=, 'name = V' for ==, 'name < V or name > V' for !=.
C4_SingleClause ==
  (Translated /\ IsSingle /\ ~EndsWith(TheVersion, Wildcard)) =>
    /\ TheOperator \in OrderedOps =>
         versioned = ExpectedPackage \o <<" ">> \o TheOperator \o <<" ">> \o TheVersion
    /\ TheOperator = OpEq =>
         versioned = ExpectedPackage \o <<" ", "=", " ">> \o TheVersion
    /\ TheOperator = OpNe => versioned = NotEqualClause(TheVersion)

\* '>= 5.0.9b7' of the requirement 'package' has been translated
C4_Witness ==
  /\ Translated /\ IsSingle /\ TheOperator = OpGe
  /\ name = <<"p", "a", "c", "k", "a", "g", "e">>
  /\ TheVersion = <<"5", ".", "0", ".", "9", "b", "7">>

\* the release without its last segment, the remaining last one incremented
UpperRelease(release) ==
  Join(<<".">>, [i \in 1..(Len(release) - 1) |->
                   Dec(IF i = Len(release) - 1 THEN release[i] + 1 ELSE release[i])])

\* C5: '~= V' with at least two release segments gives two clauses in this
\* order, 'name >= V' and 'name < U', U being the release of V without its last
\* segment and without pre, post or dev suffix, its last remaining segment
\* incremented.
C5_Compatible ==
  (Translated /\ IsSingle /\ TheOperator = OpCompatible) =>
    \A v \in SpecVersions :
      (TheVersion = VersionStr(v) /\ Len(v.release) >= 2) =>
        versioned = ExpectedPackage \o <<" ", ">", "=", " ">> \o TheVersion
                    \o <<",", " ">>
                    \o ExpectedPackage \o <<" ", "<", " ">> \o UpperRelease(v.release)

\* '~= 5.9.0b7' has been translated: its upper bound is 5.10
C5_Witness ==
  /\ Translated /\ IsSingle /\ TheOperator = OpCompatible
  /\ TheVersion = <<"5", ".", "9", ".", "0", "b", "7">>

\* C6: '==V.*' gives the clause of '==V', 'name = V', and '!=V.*' the clause of
\* '!=V', 'name < V or name > V'.
C6_Wildcard ==
  (Translated /\ IsSingle /\ EndsWith(TheVersion, Wildcard)) =>
    LET prefix == SubSeq(TheVersion, 1, Len(TheVersion) - 2)
    IN  /\ versioned =
             specifier_to_rpm_version(package, <<Specifier(TheOperator, prefix)>>)
        /\ TheOperator = OpEq =>
             versioned = ExpectedPackage \o <<" ", "=", " ">> \o prefix
        /\ TheOperator = OpNe => versioned = NotEqualClause(prefix)

\* '!= 5.9.*' has been translated
C6_Witness ==
  /\ Translated /\ IsSingle /\ TheOperator = OpNe
  /\ TheVersion = <<"5", ".", "9", ".", "*">>

\* C7: the clauses of a specifier set come out in the declaration order of its
\* specifiers.
C7_DeclarationOrder ==
  (Translated /\ versioned # InvalidSpecifierOperator /\ specifiers # <<>>) =>
    versioned = Join(<<",", " ">>, AllClauses(package, specifiers))


(***************************************************************************)
(* Marker simplification.                                                  *)
(***************************************************************************)
Simplified == condition # <<>>

IsLeaf == marker[1] = "leaf"

KnownVariables ==
  {"os_name", "sys_platform", "platform_system", "implementation_name",
   "platform_python_implementation", "extra"}

\* the value the tests' environment binds to a variable other than 'extra'
BoundValue(variable) ==
  CASE variable = "os_name" -> <<"p", "o", "s", "i", "x">>
    [] variable = "sys_platform" -> <<"l", "i", "n", "u", "x">>
    [] variable = "platform_system" -> <<"L", "i", "n", "u", "x">>
    [] variable = "implementation_name" -> <<"c", "p", "y", "t", "h", "o", "n">>
    [] variable = "platform_python_implementation" -> <<"C", "P", "y", "t", "h", "o", "n">>

IsActiveExtra(literal) == \E i \in 1..Len(extras) : extras[i] = literal

\* C8: a leaf on a known variable gives a Boolean: the comparison of the
\* literal with the value bound to the variable, and for 'extra' whether the
\* literal is one of the active extras.
C8_KnownLeaf ==
  (Simplified /\ IsLeaf /\ marker[2] \in KnownVariables) =>
    /\ IsBool(condition)
    /\ (marker[2] # "extra" /\ marker[3] = OpEq) =>
         (condition = BoolTrue <=> BoundValue(marker[2]) = marker[4])
    /\ (marker[2] # "extra" /\ marker[3] = OpNe) =>
         (condition = BoolTrue <=> BoundValue(marker[2]) # marker[4])
    /\ (marker[2] # "extra" /\ marker[3] = OpIn) =>
         (condition = BoolTrue <=> Contains(marker[4], BoundValue(marker[2])))
    /\ (marker[2] # "extra" /\ marker[3] = OpNotIn) =>
         (condition = BoolTrue <=> ~Contains(marker[4], BoundValue(marker[2])))
    /\ (marker[2] = "extra" /\ marker[3] = OpEq) =>
         (condition = BoolTrue <=> IsActiveExtra(marker[4]))
    /\ (marker[2] = "extra" /\ marker[3] = OpNe) =>
         (condition = BoolTrue <=> ~IsActiveExtra(marker[4]))

\* extra == "micro" has been simplified with the extra micro active
C8_Witness ==
  /\ Simplified /\ condition = BoolTrue
  /\ marker = <<"leaf", "extra", OpEq, <<"m", "i", "c", "r", "o">> >>
  /\ extras = << <<"m", "i", "c", "r", "o">> >>

\* C9: a leaf on a dynamic variable gives a condition string: 'with' or
\* 'without' the capability python(<literal>) for platform_machine == and !=,
\* and 'with <capability> <operator> <literal>' for an ordered comparison of
\* platform_release (kernel) or python_version (python(abi)).
C9_DynamicLeaf ==
  (Simplified /\ IsLeaf /\ marker[2] \in EqualityOnly \cup Ordered) =>
    /\ IsCondition(condition)
    /\ (marker[2] = "platform_machine" /\ marker[3] = OpEq) =>
         condition = <<"w", "i", "t", "h", " ", "p", "y", "t", "h", "o", "n", "(">>
                     \o marker[4] \o <<")">>
    /\ (marker[2] = "platform_machine" /\ marker[3] = OpNe) =>
         condition = <<"w", "i", "t", "h", "o", "u", "t", " ",
                       "p", "y", "t", "h", "o", "n", "(">> \o marker[4] \o <<")">>
    /\ (marker[2] = "platform_release" /\ marker[3] \in OrderedOps) =>
         condition = <<"w", "i", "t", "h", " ", "k", "e", "r", "n", "e", "l", " ">>
                     \o marker[3] \o <<" ">> \o marker[4]
    /\ (marker[2] = "python_version" /\ marker[3] \in OrderedOps) =>
         condition = <<"w", "i", "t", "h", " ", "p", "y", "t", "h", "o", "n",
                       "(", "a", "b", "i", ")", " ">>
                     \o marker[3] \o <<" ">> \o marker[4]

\* platform_release > "3.4" has been simplified to 'with kernel > 3.4'
C9_Witness ==
  /\ Simplified
  /\ marker = <<"leaf", "platform_release", OpGt, <<"3", ".", "4">> >>
  /\ condition = <<"w", "i", "t", "h", " ", "k", "e", "r", "n", "e", "l", " ",
                   ">", " ", "3", ".", "4">>

\* the results of the operands of a node, in the environment of the call
LeftResult == simplify_marker_to_rpm_condition(marker[2], Environment(extras))

RightResult == simplify_marker_to_rpm_condition(marker[3], Environment(extras))

\* C10: the conjunction of two results is False if either is False, the other
\* one if either is True, and 'c1 c2' for two condition strings c1 and c2.
C10_AndTable ==
  (Simplified /\ marker[1] = "and" /\ ~IsError(LeftResult) /\ ~IsError(RightResult)) =>
    /\ LeftResult = BoolFalse => condition = BoolFalse
    /\ RightResult = BoolFalse => condition = BoolFalse
    /\ LeftResult = BoolTrue => condition = RightResult
    /\ RightResult = BoolTrue => condition = LeftResult
    /\ (IsCondition(LeftResult) /\ IsCondition(RightResult)) =>
         condition = LeftResult \o <<" ">> \o RightResult

\* platform_machine != "x86-64" and platform_release > "3.4" has been simplified
C10_Witness ==
  /\ Simplified
  /\ marker = <<"and",
                <<"leaf", "platform_machine", OpNe, <<"x", "8", "6", "-", "6", "4">> >>,
                <<"leaf", "platform_release", OpGt, <<"3", ".", "4">> >> >>
  /\ condition = <<"w", "i", "t", "h", "o", "u", "t", " ", "p", "y", "t", "h", "o",
                   "n", "(", "x", "8", "6", "-", "6", "4", ")", " ", "w", "i", "t",
                   "h", " ", "k", "e", "r", "n", "e", "l", " ", ">", " ", "3", ".",
                   "4">>


\* the result of a marker in the environment of the call
Result(m) == simplify_marker_to_rpm_condition(m, Environment(extras))

\* C11: the disjunction of two results is True if either is True, the other
\* one if either is False, and 'c1 or c2' for two condition strings c1 and c2;
\* and 'A and B or C' with A statically False gives the result of C alone.
C11_OrTable ==
  /\ (Simplified /\ marker[1] = "or" /\ ~IsError(LeftResult) /\ ~IsError(RightResult)) =>
       /\ LeftResult = BoolTrue => condition = BoolTrue
       /\ RightResult = BoolTrue => condition = BoolTrue
       /\ LeftResult = BoolFalse => condition = RightResult
       /\ RightResult = BoolFalse => condition = LeftResult
       /\ (IsCondition(LeftResult) /\ IsCondition(RightResult)) =>
            condition = LeftResult \o <<" ", "o", "r", " ">> \o RightResult
  /\ (/\ Simplified /\ marker_text # <<>>
      /\ marker_text[2] = <<"and">> /\ marker_text[4] = <<"or">>
      /\ Result(marker_text[1]) = BoolFalse) => condition = Result(marker_text[5])

\* os_name == "nt" and platform_machine == "x86-64" or platform_release > "3.4"
\* has been simplified to 'with kernel > 3.4'
C11_Witness ==
  /\ Simplified /\ marker_text # <<>>
  /\ marker = <<"or",
                <<"and", <<"leaf", "os_name", OpEq, <<"n", "t">> >>,
                         <<"leaf", "platform_machine", OpEq,
                           <<"x", "8", "6", "-", "6", "4">> >> >>,
                <<"leaf", "platform_release", OpGt, <<"3", ".", "4">> >> >>
  /\ condition = <<"w", "i", "t", "h", " ", "k", "e", "r", "n", "e", "l", " ",
                   ">", " ", "3", ".", "4">>


\* C12: a conjunction with a statically False operand, on either side, is
\* False, also when the other operand has no result (its variable is bound
\* nowhere, or its operator has no rendering).
C12_FalseAbsorbs ==
  (Simplified /\ marker[1] = "and"
   /\ (LeftResult = BoolFalse \/ RightResult = BoolFalse)) =>
    condition = BoolFalse

\* a conjunction of an operand without result and a False operand has been
\* simplified to False
C12_Witness ==
  /\ Simplified /\ marker[1] = "and"
  /\ LeftResult = InvalidSpecifierOperator /\ RightResult = BoolFalse
  /\ condition = BoolFalse


(***************************************************************************)
(* Conversion of requirements.                                             *)
(***************************************************************************)
Converted == converted # NotCalled

Returned == Converted /\ converted.raised = <<>>

\* the result of the marker of a requirement in the environment of the
\* instance
MarkerResult(r) == simplify_marker_to_rpm_condition(r.marker, environments)

\* the marker is a leaf on a variable that neither the environment nor the
\* mapping of the dynamic variables knows
UnknownVariable(m) ==
  /\ m # NoMarker /\ m[1] = "leaf"
  /\ m[2] \notin DOMAIN environments
  /\ m[2] \notin EqualityOnly \cup Ordered

\* the requirement is left out or has an element
Convertible(r) ==
  /\ ~IsError(MarkerResult(r))
  /\ \/ MarkerResult(r) = BoolFalse
     \/ \A i \in 1..Len(r.specifier) :
          SpecifierClauses(<<>>, r.specifier[i]) # InvalidSpecifierOperator

\* the marker contains a leaf on an unrecognized variable
RECURSIVE ContainsUnknown(_)
ContainsUnknown(m) ==
  IF m = NoMarker THEN FALSE
  ELSE IF m[1] = "leaf" THEN UnknownVariable(m)
  ELSE ContainsUnknown(m[2]) \/ ContainsUnknown(m[3])

\* the call has failed with UnsupportedMarkerVariable and returned nothing
FailedUnsupported ==
  /\ converted.raised = UnsupportedMarkerVariable
  /\ converted.rpm_reqs = <<>>

\* the marker combines a leaf on an unrecognized variable with an operand
\* that has a result
HasUnknownOperand(m) ==
  /\ m # NoMarker /\ m[1] \in {"and", "or"}
  /\ \/ UnknownVariable(m[2]) /\ ~ContainsUnknown(m[3])
     \/ UnknownVariable(m[3]) /\ ~ContainsUnknown(m[2])

\* the result of the operand beside the leaf on the unrecognized variable
OtherOperand(m) ==
  simplify_marker_to_rpm_condition(IF UnknownVariable(m[2]) THEN m[3] ELSE m[2],
                                   environments)

\* the operand beside the leaf decides the result of the marker
Decided(m) ==
  \/ m[1] = "and" /\ OtherOperand(m) = BoolFalse
  \/ m[1] = "or" /\ OtherOperand(m) = BoolTrue

\* C13 as stated: a requirement whose marker contains a leaf on an
\* unrecognized variable makes the call fail with UnsupportedMarkerVariable,
\* and nothing is returned.
C13_ContainsFails ==
  Converted =>
    \A i \in 1..Len(reqs) :
      (/\ ContainsUnknown(reqs[i].marker)
       /\ \A j \in 1..(i - 1) : Convertible(reqs[j]))
        => FailedUnsupported

\* C13: a requirement whose marker is a leaf on an unrecognized variable, or
\* combines such a leaf with an operand that does not decide the result,
\* makes the call fail with UnsupportedMarkerVariable: nothing is returned,
\* not even the elements of the requirements before it.  Beside a False
\* operand of an AND the marker is False and the requirement is left out,
\* beside a True operand of an OR the marker is True, and the call returns.
C13_Unsupported ==
  Converted =>
    \A i \in 1..Len(reqs) :
      (\A j \in 1..(i - 1) : Convertible(reqs[j])) =>
        /\ UnknownVariable(reqs[i].marker) =>
             /\ MarkerResult(reqs[i]) = UnsupportedMarkerVariable
             /\ FailedUnsupported
        /\ (HasUnknownOperand(reqs[i].marker) /\ ~IsError(OtherOperand(reqs[i].marker))
            /\ ~Decided(reqs[i].marker)) =>
             /\ MarkerResult(reqs[i]) = UnsupportedMarkerVariable
             /\ FailedUnsupported
        /\ (HasUnknownOperand(reqs[i].marker) /\ Decided(reqs[i].marker)) =>
             /\ MarkerResult(reqs[i]) = OtherOperand(reqs[i].marker)
             /\ (\A j \in (i + 1)..Len(reqs) : Convertible(reqs[j])) => Returned

\* 'package' followed by
\* 'pbr ; os_name == "posix" and platform_version == "3.4"' has failed
C13_Witness ==
  /\ Converted /\ Len(reqs) = 2
  /\ reqs[1].marker = NoMarker /\ reqs[1].specifier = <<>>
  /\ HasUnknownOperand(reqs[2].marker) /\ reqs[2].marker[1] = "and"
  /\ OtherOperand(reqs[2].marker) = BoolTrue
  /\ FailedUnsupported

\* the requirements whose marker is not False, in the order of the call
Kept == SelectSeq(reqs, LAMBDA r : MarkerResult(r) # BoolFalse)

\* the texts of the capability of a requirement: its name in the template,
\* or its clauses joined with ', ', in an order of its specifiers
CapabilityTexts(r) ==
  LET capability == <<"p", "y", "t", "h", "o", "n", "-">> \o r.name
  IN  IF r.specifier = <<>> THEN {capability}
      ELSE {Join(<<",", " ">>, AllClauses(capability, o)) :
              o \in IterationOrders(Range(r.specifier))}

\* the elements a requirement can have
Elements(r) ==
  IF MarkerResult(r) = BoolTrue THEN CapabilityTexts(r)
  ELSE {<<"(">> \o t \o <<" ">> \o MarkerResult(r) \o <<")">> :
          t \in CapabilityTexts(r)}

\* C14: the list returned has at most one element per requirement, none for
\* the requirements whose marker is False and one for each of the others,
\* in the order of the requirements.
C14_OrderPreservingImage ==
  Returned =>
    /\ Len(converted.rpm_reqs) <= Len(reqs)
    /\ Len(converted.rpm_reqs) = Len(Kept)
    /\ \A k \in 1..Len(Kept) : converted.rpm_reqs[k] \in Elements(Kept[k])

\* a call with a requirement that is left out and then one that is kept
C14_Witness ==
  /\ Returned /\ Len(reqs) = 2
  /\ MarkerResult(reqs[1]) = BoolFalse
  /\ IsCondition(MarkerResult(reqs[2]))
  /\ Len(converted.rpm_reqs) = 1

\* C15: the element of a requirement without marker, or whose marker is
\* True, is the capability name alone if it has no specifier and its clauses
\* joined with ', ' otherwise, without parentheses or condition.
C15_TrueMarker ==
  Returned =>
    \A k \in 1..Len(Kept) :
      MarkerResult(Kept[k]) = BoolTrue =>
        /\ k <= Len(converted.rpm_reqs)
        /\ converted.rpm_reqs[k] \in CapabilityTexts(Kept[k])
        /\ ~HasChar(converted.rpm_reqs[k], "(")
        /\ ~HasChar(converted.rpm_reqs[k], ")")
        /\ Kept[k].specifier = <<>> =>
             converted.rpm_reqs[k] =
               <<"p", "y", "t", "h", "o", "n", "-">> \o Kept[k].name

\* 'package ; os_name != "nt" and implementation_name == "cpython"' has been
\* converted to 'python-package'
C15_Witness ==
  /\ Returned /\ Len(reqs) = 1
  /\ reqs[1].marker # NoMarker /\ reqs[1].marker[1] = "and"
  /\ converted.rpm_reqs =
       << <<"p", "y", "t", "h", "o", "n", "-", "p", "a", "c", "k", "a", "g", "e">> >>

\* C16: the element of a requirement whose marker is a condition string is
\* '(' + capability text + ' ' + condition + ')'.
C16_ConditionMarker ==
  Returned =>
    \A k \in 1..Len(Kept) :
      IsCondition(MarkerResult(Kept[k])) =>
        /\ k <= Len(converted.rpm_reqs)
        /\ \E t \in CapabilityTexts(Kept[k]) :
             converted.rpm_reqs[k] =
               <<"(">> \o t \o <<" ">> \o MarkerResult(Kept[k]) \o <<")">>

\* 'package ; platform_machine != "x86" and platform_release > "5.14"' has
\* been converted
C16_Witness ==
  /\ Returned /\ Len(reqs) = 1
  /\ converted.rpm_reqs =
       << <<"(", "p", "y", "t", "h", "o", "n", "-", "p", "a", "c", "k", "a", "g",
            "e", " ", "w", "i", "t", "h", "o", "u", "t", " ", "p", "y", "t", "h",
            "o", "n", "(", "x", "8", "6", ")", " ", "w", "i", "t", "h", " ", "k",
            "e", "r", "n", "e", "l", " ", ">", " ", "5", ".", "1", "4", ")">> >>

IsExtraOfCall(literal) == \E i \in 1..Len(extras) : extras[i] = literal

\* C17: a requirement guarded by extra == "X" is left out when X is not one
\* of the extras of the call and has its element when X is one of them.
C17_CallExtras ==
  (/\ Converted /\ Len(reqs) = 1
   /\ reqs[1].marker # NoMarker
   /\ reqs[1].marker[1] = "leaf" /\ reqs[1].marker[2] = "extra"
   /\ reqs[1].marker[3] = OpEq) =>
    /\ converted.raised = <<>>
    /\ ~IsExtraOfCall(reqs[1].marker[4]) => converted.rpm_reqs = <<>>
    /\ IsExtraOfCall(reqs[1].marker[4]) => Len(converted.rpm_reqs) = 1

\* C18: a second call with the same requirements, environment, extras and
\* templates has the outcome of the first.
C18_Deterministic ==
  (Converted /\ converted_again # NotCalled) => converted_again = converted


(***************************************************************************)
(* RPM.run.                                                                *)
(***************************************************************************)
RunDone == pc = "done"

\* rpmbuild has been run and has written all the files asked of it
BuiltAll ==
  /\ Len(subprocesses) = 2
  /\ built = Products(subprocesses[2], binary_rpms)

CompletedRun == RunDone /\ outcome = [raised |-> "", returned |-> "None"]

\* C19: after a full build that is no dry run, in which rpmbuild has written
\* the source rpm and the binary rpms, the source rpm and every binary rpm
\* are in dest_dir.
C19_FullBuild ==
  (/\ CompletedRun /\ BuiltAll
   /\ ~config.spec_only /\ ~config.source_only /\ ~config.binary_only
   /\ ~config.dry_run) =>
    /\ SourceRpm \in rpms.dest_dir
    /\ \A i \in 1..Len(binary_rpms) : binary_rpms[i] \in rpms.dest_dir

\* C20: a dry run puts no rpm file in dest_dir; in source-only mode it runs
\* rpmbuild -bs and in binary-only mode rpmbuild -bb, and it ends without
\* exception when rpmbuild has written the files asked of it.
C20_DryRun ==
  (config.dry_run /\ ~config.spec_only
   /\ (config.source_only # config.binary_only)) =>
    /\ rpms.dest_dir = {}
    /\ (pc \in {"collect", "done"} /\ binary_rpms # <<>>) =>
         /\ Len(subprocesses) = 2
         /\ subprocesses[2][1] = "rpmbuild"
         /\ subprocesses[2][2] = IF config.source_only THEN "-bs" ELSE "-bb"
    /\ (RunDone /\ BuiltAll) => outcome = [raised |-> "", returned |-> "None"]


\* C21: with spec_only, run starts no subprocess and makes no rpm_base;
\* without dry_run the spec file is written into dest_dir, with dry_run the
\* spec is printed and no dest_dir is made.
C21_SpecOnly ==
  config.spec_only =>
    /\ subprocesses = <<>>
    /\ pc \in {"idle", "run", "done"}
    /\ "rpm_base" \notin dirs /\ "SPECS" \notin spec_files
    /\ rpms = NoRpms
    /\ (RunDone /\ ~config.dry_run) =>
         /\ spec_files = {"dest_dir"} /\ dirs = {"dest_dir"}
         /\ ~printed
         /\ outcome = [raised |-> "", returned |-> "None"]
    /\ (RunDone /\ config.dry_run) =>
         /\ printed
         /\ dirs = {} /\ spec_files = {}
         /\ outcome = [raised |-> "", returned |-> "None"]

\* a run with spec_only and without dry_run has written the spec file
C21_Witness ==
  /\ RunDone /\ config.spec_only /\ ~config.dry_run
  /\ spec_files = {"dest_dir"}


\* the rpmbuild command of the run
RpmbuildCommand == subprocesses[2]

\* C22: when run raises RPMBuildError for an rpm that was not built and
\* keep_temp is false, neither the spec file under rpm_base/SPECS nor rpm_base
\* exists afterwards; when keep_temp is true the spec file stays and rpmbuild
\* is run without --clean.
C22_CleanUp ==
  /\ (RunDone /\ outcome.raised = "RPMBuildError" /\ ~config.keep_temp) =>
       /\ "SPECS" \notin spec_files
       /\ "rpm_base" \notin dirs
  /\ (config.keep_temp /\ ~config.spec_only /\ pc \in {"collect", "done"}
      /\ binary_rpms # <<>>) =>
       /\ "SPECS" \in spec_files
       /\ \A i \in 1..Len(RpmbuildCommand) : RpmbuildCommand[i] # "--clean"


(***************************************************************************)
(* Version ranges.                                                         *)
(***************************************************************************)
\* the version text written in the clause 'package OP text'
ClauseVersion ==
  Drop(versioned, Len(package) + 1 + Len(TheOperator) + 1)

\* the comparison RPM makes of the candidate with the version of the clause
CandidateCmp == labelCompare(RPMVersion(rpm1), RPMVersion(ClauseVersion))

\* C23: for '>= V' and '<= V', the encoding of a candidate w compares with
\* the version text of the clause, under RPM label comparison, as w compares
\* with V in PEP 440 order.
C23_RangeAgrees ==
  (/\ Encoded(rpm1) /\ Translated /\ IsSingle
   /\ versioned # InvalidSpecifierOperator) =>
    /\ TheOperator = OpGe => (CandidateCmp >= 0 <=> VersionCmp(ver1, ver2) >= 0)
    /\ TheOperator = OpLe => (CandidateCmp <= 0 <=> VersionCmp(ver1, ver2) <= 0)


(***************************************************************************)
(* A failing rpmbuild.                                                     *)
(***************************************************************************)
\* rpmbuild has just failed: run ends at the rpmbuild command
RpmbuildFails == pc = "rpmbuild" /\ pc' = "done"

\* C24: when the rpmbuild command fails, run ends by raising RPMBuildError,
\* it does not return, and no file has been moved into dest_dir.
C24_FailureRaises ==
  [][RpmbuildFails =>
       /\ outcome'.raised = "RPMBuildError"
       /\ outcome'.returned = ""
       /\ rpms'.dest_dir = {}]_vars


(***************************************************************************)
(* The chain of template sections.                                         *)
(***************************************************************************)
\* C25: following the `inherits` entries from the flavour reaches
\* base_templates after finitely many steps, whatever the configuration:
\* the loop of RPM.__init__ ends.
C25_Terminates == <>(init_pc = "done")


====
